---- MODULE Spec2Model ----
(***************************************************************************)
(* Model of the traffic monitor: the zone occupancy engine                 *)
(* (zone_counter.py, class ZoneCounter) and the producer/consumer pipeline *)
(* around it (api.py: PipelineState, run_pipeline, start, stop, stats).    *)
(*                                                                         *)
(* Python dicts are functions whose DOMAIN is the set of keys present; a   *)
(* defaultdict inserts its default on a read of a missing key, and the     *)
(* model does the same.                                                    *)
(***************************************************************************)
EXTENDS Integers, Sequences, FiniteSets, TLC

(***************************************************************************)
(* Bounds of the model.                                                    *)
(***************************************************************************)
\* a zone's count is not pushed past MaxCount (guard of the update actions)
MaxCount == 2

(***************************************************************************)
(* Dict helpers.                                                           *)
(***************************************************************************)
EmptyDict == << >>

Put(d, k, v) == [x \in (DOMAIN d) \cup {k} |-> IF x = k THEN v ELSE d[x]]

GetOr(d, k, default) == IF k \in DOMAIN d THEN d[k] ELSE default

RECURSIVE SumOver(_, _)
SumOver(d, keys) ==
    IF keys = {} THEN 0
    ELSE LET k == CHOOSE x \in keys : TRUE
         IN  d[k] + SumOver(d, keys \ {k})

\* sum(d.values())
SumValues(d) == SumOver(d, DOMAIN d)

(***************************************************************************)
(* Zone files.  A zones file is the list written by zone_setup.py: ids are *)
(* the zone indices 0, 1, ...; a polygon is a sequence of <<x, y>> points. *)
(***************************************************************************)
ZonesA ==
    << [id |-> 0, label |-> "north",
        polygon |-> << <<0, 0>>, <<4, 0>>, <<4, 4>>, <<0, 4>> >>],
       [id |-> 1, label |-> "south",
        polygon |-> << <<2, 2>>, <<8, 2>>, <<2, 8>> >>] >>

(***************************************************************************)
(* cv2.pointPolygonTest(polygon, point, measureDist=False) >= 0: the point *)
(* is on an edge, or a ray from it crosses the closed polygon an odd       *)
(* number of times.                                                        *)
(***************************************************************************)
Min2(a, b) == IF a <= b THEN a ELSE b
Max2(a, b) == IF a >= b THEN a ELSE b

EdgeFrom(poly, i) == poly[i]
EdgeTo(poly, i) == poly[IF i = Len(poly) THEN 1 ELSE i + 1]

Cross(a, b, p) == (b[1] - a[1]) * (p[2] - a[2]) - (b[2] - a[2]) * (p[1] - a[1])

OnSegment(a, b, p) ==
    /\ Cross(a, b, p) = 0
    /\ Min2(a[1], b[1]) <= p[1] /\ p[1] <= Max2(a[1], b[1])
    /\ Min2(a[2], b[2]) <= p[2] /\ p[2] <= Max2(a[2], b[2])

\* the horizontal ray from p to the right crosses the edge a-b
RayCrosses(a, b, p) ==
    /\ (a[2] > p[2]) # (b[2] > p[2])
    /\ IF b[2] > a[2]
         THEN (p[1] - a[1]) * (b[2] - a[2]) < (b[1] - a[1]) * (p[2] - a[2])
         ELSE (p[1] - a[1]) * (b[2] - a[2]) > (b[1] - a[1]) * (p[2] - a[2])

\* the mutant of PointInZone that leaves the boundary out
PointInZoneStrict(point, polygon) ==
    Cardinality({i \in 1..Len(polygon) :
                    RayCrosses(EdgeFrom(polygon, i), EdgeTo(polygon, i), point)}) % 2 = 1

\* ZoneCounter._point_in_zone: result >= 0, the boundary included
PointInZone(point, polygon) ==
    \/ \E i \in 1..Len(polygon) :
          OnSegment(EdgeFrom(polygon, i), EdgeTo(polygon, i), point)
    \/ Cardinality({i \in 1..Len(polygon) :
                    RayCrosses(EdgeFrom(polygon, i), EdgeTo(polygon, i), point)}) % 2 = 1

(***************************************************************************)
(* Tracks.  A track is the row <<x1, y1, x2, y2, track_id>>.               *)
(***************************************************************************)
\* int(x) of a half-integer n/2: truncation toward zero
IntHalf(n) == IF n >= 0 THEN n \div 2 ELSE -((-n) \div 2)

\* ZoneCounter._get_center
GetCenter(track) == << IntHalf(track[1] + track[3]), IntHalf(track[2] + track[4]) >>

\* bounding boxes the model's tracker reports; their centres are
\* (1,1) north only, (5,5) on the south edge, (7,7) neither,
\* (4,4) the north corner and south (4.5 truncated)
Boxes == { <<0, 0, 2, 2>>, <<4, 4, 6, 6>>, <<6, 6, 8, 8>>, <<3, 3, 6, 6>> }

\* the ids the model's tracker hands out
TrackIds == { 1, 2 }

MkTrack(box, id) == << box[1], box[2], box[3], box[4], id >>

TracksOver(boxes, ids) == { MkTrack(b, i) : b \in boxes, i \in ids }

\* the track lists of one frame: the tracker reports each live id once
TrackListsOver(boxes, ids, maxLen) ==
    UNION { { s \in [1..n -> TracksOver(boxes, ids)] :
                \A i, j \in 1..n : i # j => s[i][5] # s[j][5] } : n \in 0..maxLen }

(***************************************************************************)
(* ZoneCounter.  An engine is [zones, counts, track_state].                *)
(***************************************************************************)
\* ZoneCounter.__init__ on a loaded zones file
NewCounter(zones) == [zones |-> zones, counts |-> EmptyDict, track_state |-> EmptyDict]

\* the mutant of UpdateZone that never records an exit
UpdateZoneNoExit(e, track_id, center, zone) ==
    LET state_key  == << track_id, zone.id >>
        in_zone    == PointInZone(center, zone.polygon)
        prev_state == GetOr(e.track_state, state_key, "outside")
        ts         == Put(e.track_state, state_key, prev_state)
    IN  IF in_zone /\ prev_state = "outside"
          THEN [e EXCEPT !.counts = Put(e.counts, zone.id, GetOr(e.counts, zone.id, 0) + 1),
                         !.track_state = Put(ts, state_key, "inside")]
          ELSE [e EXCEPT !.track_state = ts]

\* the mutant of UpdateZone that counts every frame a track is inside
UpdateZoneEveryFrame(e, track_id, center, zone) ==
    LET state_key  == << track_id, zone.id >>
        in_zone    == PointInZone(center, zone.polygon)
        prev_state == GetOr(e.track_state, state_key, "outside")
        ts         == Put(e.track_state, state_key, prev_state)
    IN  IF in_zone
          THEN [e EXCEPT !.counts = Put(e.counts, zone.id, GetOr(e.counts, zone.id, 0) + 1),
                         !.track_state = Put(ts, state_key, "inside")]
          ELSE IF prev_state = "inside"
                 THEN [e EXCEPT !.track_state = Put(ts, state_key, "outside")]
                 ELSE [e EXCEPT !.track_state = ts]

\* the mutant of UpdateZone that also counts an exit
UpdateZoneCountsExit(e, track_id, center, zone) ==
    LET state_key  == << track_id, zone.id >>
        in_zone    == PointInZone(center, zone.polygon)
        prev_state == GetOr(e.track_state, state_key, "outside")
        ts         == Put(e.track_state, state_key, prev_state)
    IN  IF in_zone /\ prev_state = "outside"
          THEN [e EXCEPT !.counts = Put(e.counts, zone.id, GetOr(e.counts, zone.id, 0) + 1),
                         !.track_state = Put(ts, state_key, "inside")]
          ELSE IF ~in_zone /\ prev_state = "inside"
                 THEN [e EXCEPT !.counts = Put(e.counts, zone.id, GetOr(e.counts, zone.id, 0) + 1),
                                !.track_state = Put(ts, state_key, "outside")]
                 ELSE [e EXCEPT !.track_state = ts]

\* the mutant of UpdateZone that takes an exit back off the count
UpdateZoneDecrementsExit(e, track_id, center, zone) ==
    LET state_key  == << track_id, zone.id >>
        in_zone    == PointInZone(center, zone.polygon)
        prev_state == GetOr(e.track_state, state_key, "outside")
        ts         == Put(e.track_state, state_key, prev_state)
    IN  IF in_zone /\ prev_state = "outside"
          THEN [e EXCEPT !.counts = Put(e.counts, zone.id, GetOr(e.counts, zone.id, 0) + 1),
                         !.track_state = Put(ts, state_key, "inside")]
          ELSE IF ~in_zone /\ prev_state = "inside"
                 THEN [e EXCEPT !.counts = Put(e.counts, zone.id, GetOr(e.counts, zone.id, 0) - 1),
                                !.track_state = Put(ts, state_key, "outside")]
                 ELSE [e EXCEPT !.track_state = ts]

\* the mutant of UpdateZone that counts a track when it leaves the zone
\* and not when it enters
UpdateZoneCountsAtExit(e, track_id, center, zone) ==
    LET state_key  == << track_id, zone.id >>
        in_zone    == PointInZone(center, zone.polygon)
        prev_state == GetOr(e.track_state, state_key, "outside")
        ts         == Put(e.track_state, state_key, prev_state)
    IN  IF in_zone /\ prev_state = "outside"
          THEN [e EXCEPT !.track_state = Put(ts, state_key, "inside")]
          ELSE IF ~in_zone /\ prev_state = "inside"
                 THEN [e EXCEPT !.counts = Put(e.counts, zone.id, GetOr(e.counts, zone.id, 0) + 1),
                                !.track_state = Put(ts, state_key, "outside")]
                 ELSE [e EXCEPT !.track_state = ts]

\* the body of update's inner loop, for one track and one zone
UpdateZone(e, track_id, center, zone) ==
    LET state_key  == << track_id, zone.id >>
        in_zone    == PointInZone(center, zone.polygon)
        \* self.track_state[state_key] on a defaultdict inserts "outside"
        prev_state == GetOr(e.track_state, state_key, "outside")
        ts         == Put(e.track_state, state_key, prev_state)
    IN  IF in_zone /\ prev_state = "outside"
          THEN [e EXCEPT !.counts = Put(e.counts, zone.id, GetOr(e.counts, zone.id, 0) + 1),
                         !.track_state = Put(ts, state_key, "inside")]
          ELSE IF ~in_zone /\ prev_state = "inside"
                 THEN [e EXCEPT !.track_state = Put(ts, state_key, "outside")]
                 ELSE [e EXCEPT !.track_state = ts]

\* for zone in self.zones, from the i-th zone on
RECURSIVE UpdateTrackFrom(_, _, _)
UpdateTrackFrom(e, track, i) ==
    IF i > Len(e.zones) THEN e
    ELSE UpdateTrackFrom(UpdateZone(e, track[5], GetCenter(track), e.zones[i]), track, i + 1)

\* for track in tracks, from the i-th track on
RECURSIVE UpdateFrom(_, _, _)
UpdateFrom(e, tracks, i) ==
    IF i > Len(tracks) THEN e
    ELSE UpdateFrom(UpdateTrackFrom(e, tracks[i], 1), tracks, i + 1)

\* an update that forgets the state of every track the frame does not list
UpdateForgetsAbsent(e, tracks) ==
    LET seen == { tracks[i][5] : i \in 1..Len(tracks) }
        kept == { k \in DOMAIN e.track_state : k[1] \in seen }
    IN  UpdateFrom([e EXCEPT !.track_state = [k \in kept |-> e.track_state[k]]], tracks, 1)

\* ZoneCounter.update
Update(e, tracks) == UpdateFrom(e, tracks, 1)

\* ZoneCounter.get_count: a defaultdict read, which inserts the key
GetCount(e, zone_id) == GetOr(e.counts, zone_id, 0)
AfterGetCount(e, zone_id) ==
    [e EXCEPT !.counts = Put(e.counts, zone_id, GetOr(e.counts, zone_id, 0))]

\* self.counts after the reads of get_all_counts, zones i.. still to read
RECURSIVE AfterGetAllCountsFrom(_, _)
AfterGetAllCountsFrom(e, i) ==
    IF i > Len(e.zones) THEN e
    ELSE AfterGetAllCountsFrom(AfterGetCount(e, e.zones[i].id), i + 1)

AfterGetAllCounts(e) == AfterGetAllCountsFrom(e, 1)

\* the dict comprehension {zone["label"]: self.counts[zone["id"]] ...}: a
\* later zone with the same label overwrites an earlier one
RECURSIVE AllCountsFrom(_, _, _)
AllCountsFrom(e, i, acc) ==
    IF i > Len(e.zones) THEN acc
    ELSE AllCountsFrom(e, i + 1, Put(acc, e.zones[i].label, GetCount(e, e.zones[i].id)))

\* the mutant of GetAllCounts that lists only the zones self.counts holds
GetAllCountsCounted(e) ==
    LET all == AllCountsFrom(e, 1, EmptyDict)
        had == { e.zones[i].label : i \in { j \in 1..Len(e.zones) : e.zones[j].id \in DOMAIN e.counts } }
    IN  [l \in had |-> all[l]]

\* ZoneCounter.get_all_counts
GetAllCounts(e) == AllCountsFrom(e, 1, EmptyDict)

\* the mutant of GetTotal that counts each track once, however many zones
\* it is inside
GetTotalDistinct(e) ==
    Cardinality({ k[1] : k \in { j \in DOMAIN e.track_state : e.track_state[j] = "inside" } })

\* ZoneCounter.get_total
GetTotal(e) == SumValues(e.counts)

\* no zone of e is counted past MaxCount
WithinCount(e) == \A k \in DOMAIN e.counts : e.counts[k] <= MaxCount


(***************************************************************************)
(* The standalone engine: one ZoneCounter driven frame by frame, as the    *)
(* loop of main.py and run_pipeline drive it.                              *)
(***************************************************************************)
VARIABLES
    zc,            \* the ZoneCounter instance
    traj           \* per (track id, zone id): the memberships observed so far,
                   \* repeats collapsed (history variable)

engineVars == << zc, traj >>

ZoneIdsOf(zones) == { zones[i].id : i \in 1..Len(zones) }

\* every frame the tracker can report: each id at most once
EngineTrackLists == TrackListsOver(Boxes, TrackIds, Cardinality(TrackIds))

\* the track of id in the list, as a set of at most one element
TrackOf(tracks, id) == { tracks[i] : i \in { j \in 1..Len(tracks) : tracks[j][5] = id } }

Observe(seq, m) == IF Len(seq) > 0 /\ seq[Len(seq)] = m THEN seq ELSE Append(seq, m)

\* the number of contiguous Inside intervals of a collapsed trajectory
Intervals(seq) == Cardinality({ i \in 1..Len(seq) : seq[i] })

TrajAfter(tr, zones, tracks) ==
    [k \in DOMAIN tr |->
        LET hit == { t \in TrackOf(tracks, k[1]) : TRUE }
            zn  == { zones[i] : i \in { j \in 1..Len(zones) : zones[j].id = k[2] } }
        IN  IF hit = {} \/ zn = {} THEN tr[k]
            ELSE LET t == CHOOSE x \in hit : TRUE
                     z == CHOOSE x \in zn : TRUE
                 IN  Observe(tr[k], PointInZone(GetCenter(t), z.polygon))]

(***************************************************************************)
(* The service of api.py.                                                  *)
(*                                                                         *)
(* A file name is <<stem, extension>>.  The request handlers of FastAPI    *)
(* run on a thread pool, so start, stop and stats interleave with each     *)
(* other and with the pipeline threads statement by statement.  A `with    *)
(* state.lock` block is entered only when the lock is free.                *)
(***************************************************************************)
\* frames one pipeline thread processes in the specification Spec
MaxFrames == 1
\* frames the pipeline thread processes in the specification SpecHist
HistFrames == 62

\* the most tracks one frame carries in the specification SpecDensity
MaxActive == 120

\* frames one pipeline thread processes in the specification SpecStop
StopFrames == 2
\* frames the pipeline thread processes in the specification SpecLive
LiveFrames == 3

\* deque(maxlen=60)
HistoryMax == 60
\* len(frame_times) > 30
FrameWindow == 30
\* config.DENSITY_LOW, config.DENSITY_HIGH
DENSITY_LOW == 5
DENSITY_HIGH == 15

\* the start requests of one run of the model; request h spawns thread h
Calls == { 1, 2 }
NoThread == 0

\* config.VIDEOS.values()
Videos == { <<"a", "mp4">>, <<"b", "mp4">>, <<"c", "mp4">>, <<"d", "mp4">> }
\* the file names a start request may carry
RequestNames == Videos \cup { <<"x", "mp4">> }

\* str(ASSETS_DIR / filename)
VideoPath(filename) == << "assets", filename >>
\* Path(path).name
PathName(path) == path[2]
\* zones_path: ASSETS_DIR / f"zones_{Path(filename).stem}.json"
zones_path(filename) == << "assets", "zones", filename[1] >>

\* the files under assets/: whether a zones file is "absent", "valid" or
\* "malformed" (JSON without the fields _load_zones reads), and its zones
ZonesFileKind(path) ==
    IF path \in { << "assets", "zones", "a" >>, << "assets", "zones", "c" >> } THEN "valid"
    ELSE IF path = << "assets", "zones", "d" >> THEN "malformed"
    ELSE "absent"

ZonesFileZones(path) == ZonesA

\* Path.exists()
ZonesFileExists(path) == ZonesFileKind(path) # "absent"

\* cv2.VideoCapture(path).isOpened()
VideoOpens(path) == path \in { VideoPath(<<"a", "mp4">>), VideoPath(<<"b", "mp4">>),
                               VideoPath(<<"d", "mp4">>) }

\* the mutant of GetDensity whose thresholds are exclusive
GetDensityStrict(active_track_count) ==
    IF active_track_count < DENSITY_LOW THEN "LOW"
    ELSE IF active_track_count < DENSITY_HIGH THEN "MEDIUM"
    ELSE "HIGH"

\* ZoneCounter.get_density
GetDensity(active_track_count) ==
    IF active_track_count <= DENSITY_LOW THEN "LOW"
    ELSE IF active_track_count <= DENSITY_HIGH THEN "MEDIUM"
    ELSE "HIGH"

VARIABLES
    \* PipelineState
    running, fps, active_tracks, density, zone_counts, latest_frame, history,
    lock,             \* NoThread, or who holds state.lock
    video_path,       \* << >> for None
    pipeline_thread,  \* NoThread for None, else the thread last created
    \* start request h
    spc,              \* where request h is in start()
    sfile,            \* its filename
    sresp,            \* its response, "" while it has none
    \* pipeline thread t
    tpc,              \* where thread t is in run_pipeline()
    counter,          \* its ZoneCounter
    cap,              \* its capture: "none", "open", "failed", "released"
    frame_times,      \* its window of frame durations, in tenths of a second
    tfps,             \* its local fps, the fraction <<frames * 10, tenths>>
    nframes,          \* frames it has read successfully
    loc,              \* its locals between the frame and the publish
    \* the last response of stats(), << >> before the first
    resp,
    \* history variables
    appended,         \* what was appended to history since its last clear
    lastPub,          \* << >>, or <<s>>: the snapshot the last publish wrote
    cleared,          \* a start-time reset ran after the last publish began
    resetBy,          \* the start request whose reset ran last, 0 if none
    accepted,         \* the start request that passed the running check last
    stopCalled,       \* a stop request has turned running from true to false
    afterStop,        \* per start request: it was accepted after such a stop
    stopLast,         \* the last control request was a stop, made with no start
                      \* request under way, and no start was accepted since
    pubsAfterStop,    \* per thread: its publishes since stopLast became true
    skipped,          \* per thread: it is back at the top of its loop after a
                      \* frame it could not read
    respEpoch         \* the value of accepted when resp was read

storeVars == << running, fps, active_tracks, density, zone_counts, latest_frame,
                history, lock, video_path, pipeline_thread >>
startVars == << spc, sfile, sresp >>
threadVars == << tpc, counter, cap, frame_times, tfps, nframes, loc >>
readVars == << resp, respEpoch >>
histVars == << appended, lastPub, cleared, resetBy, accepted, stopCalled, afterStop,
              stopLast, pubsAfterStop >>
ghostVars == << histVars, skipped >>
serviceVars == << storeVars, startVars, threadVars, readVars, ghostVars >>

vars == << engineVars, serviceVars >>

(***************************************************************************)
(* The standalone engine's operations.                                     *)
(***************************************************************************)
InitEngine ==
    /\ zc = NewCounter(ZonesA)
    /\ traj = [k \in TrackIds \X ZoneIdsOf(ZonesA) |-> << >>]

\* counter.update(tracks)
ZCUpdate(tracks) ==
    /\ zc' = Update(zc, tracks)
    /\ WithinCount(zc')
    /\ traj' = TrajAfter(traj, zc.zones, tracks)
    /\ UNCHANGED serviceVars

\* counter.get_count(zone_id)
ZCGetCount(zone_id) ==
    /\ zc' = AfterGetCount(zc, zone_id)
    /\ UNCHANGED << traj, serviceVars >>

\* counter.get_all_counts()
ZCGetAllCounts ==
    /\ zc' = AfterGetAllCounts(zc)
    /\ UNCHANGED << traj, serviceVars >>


NoLocals == [jpeg |-> << >>, tracks_len |-> 0, density |-> "LOW", zone_counts |-> EmptyDict]

\* PipelineState.__init__, and no request made yet
InitService ==
    /\ running = FALSE
    /\ fps = 0
    /\ active_tracks = 0
    /\ density = "LOW"
    /\ zone_counts = EmptyDict
    /\ latest_frame = << >>
    /\ history = << >>
    /\ lock = NoThread
    /\ video_path = << >>
    /\ pipeline_thread = NoThread
    /\ spc = [h \in Calls |-> "idle"]
    /\ sfile = [h \in Calls |-> << >>]
    /\ sresp = [h \in Calls |-> ""]
    /\ tpc = [t \in Calls |-> "none"]
    /\ counter = [t \in Calls |-> NewCounter(<< >>)]
    /\ cap = [t \in Calls |-> "none"]
    /\ frame_times = [t \in Calls |-> << >>]
    /\ tfps = [t \in Calls |-> << 0, 1 >>]
    /\ nframes = [t \in Calls |-> 0]
    /\ loc = [t \in Calls |-> NoLocals]
    /\ resp = << >>
    /\ respEpoch = 0
    /\ appended = << >>
    /\ lastPub = << >>
    /\ cleared = FALSE
    /\ resetBy = 0
    /\ accepted = 0
    /\ stopCalled = FALSE
    /\ afterStop = [h \in Calls |-> FALSE]
    /\ stopLast = FALSE
    /\ pubsAfterStop = [t \in Calls |-> 0]
    /\ skipped = [t \in Calls |-> FALSE]

Init == InitEngine /\ InitService


(***************************************************************************)
(* The store's operations.                                                 *)
(***************************************************************************)
\* the mutant of DequeAppend that drops the new entry when full
DequeAppendDropNew(h, e) == IF Len(h) >= HistoryMax THEN h ELSE Append(h, e)

\* the mutant of DequeAppend that never evicts
DequeAppendUnbounded(h, e) == Append(h, e)

\* deque(maxlen=60).append: the oldest entry is evicted when full
DequeAppend(h, e) ==
    IF Len(h) >= HistoryMax THEN Append(Tail(h), e) ELSE Append(h, e)

\* {"time": ..., "total": total, **zone_counts}: a zone label overrides an
\* earlier key of the same name; the wall-clock string "time" is left out
HistoryEntry(total, zcounts) ==
    [k \in {"total"} \cup DOMAIN zcounts |->
        IF k \in DOMAIN zcounts THEN zcounts[k] ELSE total]

\* round(fps, 1) of the fraction f, in tenths, ties to even
Round1(f) ==
    LET n == 10 * f[1]
        q == n \div f[2]
        r == n % f[2]
    IN  IF 2 * r < f[2] THEN q
        ELSE IF 2 * r > f[2] THEN q + 1
        ELSE IF q % 2 = 0 THEN q ELSE q + 1

\* what stats() returns when it holds the lock
StatsResponse ==
    [fps |-> fps, active_tracks |-> active_tracks, density |-> density,
     zone_counts |-> zone_counts, history |-> history, running |-> running]

(***************************************************************************)
(* start(filename), request h.                                             *)
(***************************************************************************)
\* the mutant of StartCheck that does not look for the zones file
StartCheckNoZoneTest(h, filename) ==
    /\ spc[h] = "idle"
    /\ IF h = 1 THEN TRUE ELSE spc[h - 1] # "idle"
    /\ sfile' = [sfile EXCEPT ![h] = filename]
    /\ IF filename \notin Videos
         THEN /\ spc' = [spc EXCEPT ![h] = "done"]
              /\ sresp' = [sresp EXCEPT ![h] = "404 Video not found"]
              /\ UNCHANGED << accepted, afterStop, stopLast >>
         ELSE IF running
           THEN /\ spc' = [spc EXCEPT ![h] = "done"]
                /\ sresp' = [sresp EXCEPT ![h] = "already running"]
                /\ UNCHANGED << accepted, afterStop, stopLast >>
           ELSE /\ spc' = [spc EXCEPT ![h] = "set_running"]
                /\ sresp' = sresp
                /\ accepted' = h
                /\ afterStop' = [afterStop EXCEPT ![h] = stopCalled]
                /\ stopLast' = FALSE
    /\ UNCHANGED << engineVars, storeVars, threadVars, readVars,
                    appended, lastPub, cleared, resetBy, stopCalled, pubsAfterStop,
                    skipped >>

\* lines 137-145: the request arrives and passes or fails the three checks
StartCheck(h, filename) ==
    /\ spc[h] = "idle"
    /\ IF h = 1 THEN TRUE ELSE spc[h - 1] # "idle"
    /\ sfile' = [sfile EXCEPT ![h] = filename]
    /\ IF filename \notin Videos
         THEN /\ spc' = [spc EXCEPT ![h] = "done"]
              /\ sresp' = [sresp EXCEPT ![h] = "404 Video not found"]
              /\ UNCHANGED << accepted, afterStop, stopLast >>
         ELSE IF ~ZonesFileExists(zones_path(filename))
           THEN /\ spc' = [spc EXCEPT ![h] = "done"]
                /\ sresp' = [sresp EXCEPT ![h] = "400 No zones for this video"]
                /\ UNCHANGED << accepted, afterStop, stopLast >>
           ELSE IF running
             THEN /\ spc' = [spc EXCEPT ![h] = "done"]
                  /\ sresp' = [sresp EXCEPT ![h] = "already running"]
                  /\ UNCHANGED << accepted, afterStop, stopLast >>
             ELSE /\ spc' = [spc EXCEPT ![h] = "set_running"]
                  /\ sresp' = sresp
                  /\ accepted' = h
                  /\ afterStop' = [afterStop EXCEPT ![h] = stopCalled]
                  /\ stopLast' = FALSE
    /\ UNCHANGED << engineVars, storeVars, threadVars, readVars,
                    appended, lastPub, cleared, resetBy, stopCalled, pubsAfterStop,
                    skipped >>

\* line 147
StartSetRunning(h) ==
    /\ spc[h] = "set_running"
    /\ running' = TRUE
    /\ spc' = [spc EXCEPT ![h] = "set_path"]
    /\ UNCHANGED << engineVars, fps, active_tracks, density, zone_counts, latest_frame,
                    history, lock, video_path, pipeline_thread, sfile, sresp,
                    threadVars, readVars, ghostVars >>

\* line 148
StartSetPath(h) ==
    /\ spc[h] = "set_path"
    /\ video_path' = VideoPath(sfile[h])
    /\ spc' = [spc EXCEPT ![h] = "reset"]
    /\ UNCHANGED << engineVars, running, fps, active_tracks, density, zone_counts,
                    latest_frame, history, lock, pipeline_thread, sfile, sresp,
                    threadVars, readVars, ghostVars >>

\* the mutant of StartReset that clears the counts and keeps the history
StartResetKeepsHistory(h) ==
    /\ spc[h] = "reset"
    /\ lock = NoThread
    /\ zone_counts' = EmptyDict
    /\ spc' = [spc EXCEPT ![h] = "spawn"]
    /\ cleared' = TRUE
    /\ resetBy' = h
    /\ UNCHANGED << engineVars, running, fps, active_tracks, density, latest_frame,
                    history, lock, video_path, pipeline_thread, sfile, sresp,
                    threadVars, readVars, appended, lastPub, accepted, stopCalled,
                    afterStop, stopLast, pubsAfterStop, skipped >>

\* lines 150-152, under the lock
StartReset(h) ==
    /\ spc[h] = "reset"
    /\ lock = NoThread
    /\ history' = << >>
    /\ zone_counts' = EmptyDict
    /\ spc' = [spc EXCEPT ![h] = "spawn"]
    /\ appended' = << >>
    /\ cleared' = TRUE
    /\ resetBy' = h
    /\ UNCHANGED << engineVars, running, fps, active_tracks, density, latest_frame,
                    lock, video_path, pipeline_thread, sfile, sresp,
                    threadVars, readVars, lastPub, accepted, stopCalled, afterStop,
                    stopLast, pubsAfterStop, skipped >>

\* lines 154-156
StartSpawn(h) ==
    /\ spc[h] = "spawn"
    /\ pipeline_thread' = h
    /\ tpc' = [tpc EXCEPT ![h] = "load"]
    /\ spc' = [spc EXCEPT ![h] = "done"]
    /\ sresp' = [sresp EXCEPT ![h] = "started"]
    /\ UNCHANGED << engineVars, running, fps, active_tracks, density, zone_counts,
                    latest_frame, history, lock, video_path, sfile,
                    counter, cap, frame_times, tfps, nframes, loc, readVars, ghostVars >>

(***************************************************************************)
(* stop() and stats().                                                     *)
(***************************************************************************)
\* the mutant of Stop that also empties the published counts
StopResets ==
    /\ running' = FALSE
    /\ zone_counts' = EmptyDict
    /\ stopCalled' = (stopCalled \/ running)
    /\ stopLast' = (\A h \in Calls : spc[h] \in { "idle", "done" })
    /\ pubsAfterStop' = IF stopLast THEN pubsAfterStop ELSE [t \in Calls |-> 0]
    /\ UNCHANGED << engineVars, fps, active_tracks, density, latest_frame,
                    history, lock, video_path, pipeline_thread, startVars,
                    threadVars, readVars, appended, lastPub, cleared, resetBy,
                    accepted, afterStop, skipped >>

\* line 161
Stop ==
    /\ running' = FALSE
    /\ stopCalled' = (stopCalled \/ running)
    /\ stopLast' = (\A h \in Calls : spc[h] \in { "idle", "done" })
    /\ pubsAfterStop' = IF stopLast THEN pubsAfterStop ELSE [t \in Calls |-> 0]
    /\ UNCHANGED << engineVars, fps, active_tracks, density, zone_counts, latest_frame,
                    history, lock, video_path, pipeline_thread, startVars,
                    threadVars, readVars, appended, lastPub, cleared, resetBy,
                    accepted, afterStop, skipped >>

\* lines 167-175, under the lock
Stats ==
    /\ lock = NoThread
    /\ resp' = << StatsResponse >>
    /\ respEpoch' = accepted
    /\ UNCHANGED << engineVars, storeVars, startVars, threadVars, ghostVars >>


(***************************************************************************)
(* run_pipeline(), thread t.                                               *)
(***************************************************************************)
\* lines 57-66: the zones of the video named by state.video_path are loaded
T_Load(t) ==
    /\ tpc[t] = "load"
    /\ LET zp   == zones_path(PathName(video_path))
           kind == ZonesFileKind(zp)
       IN  IF kind = "absent"
             \* FileNotFoundError, caught
             THEN /\ running' = FALSE
                  /\ tpc' = [tpc EXCEPT ![t] = "done"]
                  /\ UNCHANGED counter
             ELSE IF kind = "malformed"
               \* KeyError out of _load_zones: nothing catches it, the thread dies
               THEN /\ tpc' = [tpc EXCEPT ![t] = "crashed"]
                    /\ UNCHANGED << running, counter >>
               ELSE /\ counter' = [counter EXCEPT ![t] = NewCounter(ZonesFileZones(zp))]
                    /\ tpc' = [tpc EXCEPT ![t] = "open"]
                    /\ UNCHANGED running
    /\ UNCHANGED << engineVars, fps, active_tracks, density, zone_counts, latest_frame,
                    history, lock, video_path, pipeline_thread, startVars,
                    cap, frame_times, tfps, nframes, loc, readVars, ghostVars >>

\* lines 68-76
T_Open(t) ==
    /\ tpc[t] = "open"
    /\ IF VideoOpens(video_path)
         THEN /\ cap' = [cap EXCEPT ![t] = "open"]
              /\ frame_times' = [frame_times EXCEPT ![t] = << >>]
              /\ tfps' = [tfps EXCEPT ![t] = << 0, 1 >>]
              /\ tpc' = [tpc EXCEPT ![t] = "loop"]
              /\ UNCHANGED running
         ELSE /\ cap' = [cap EXCEPT ![t] = "failed"]
              /\ running' = FALSE
              /\ tpc' = [tpc EXCEPT ![t] = "done"]
              /\ UNCHANGED << frame_times, tfps >>
    /\ UNCHANGED << engineVars, fps, active_tracks, density, zone_counts, latest_frame,
                    history, lock, video_path, pipeline_thread, startVars,
                    counter, nframes, loc, readVars, ghostVars >>

\* the mutant of T_LoopCheck that loops whatever state.running says
T_LoopCheckAlways(t) ==
    /\ tpc[t] = "loop"
    /\ tpc' = [tpc EXCEPT ![t] = "read"]
    /\ skipped' = [skipped EXCEPT ![t] = FALSE]
    /\ UNCHANGED << engineVars, storeVars, startVars,
                    counter, cap, frame_times, tfps, nframes, loc, readVars, histVars >>

\* line 78: while state.running
T_LoopCheck(t) ==
    /\ tpc[t] = "loop"
    /\ tpc' = [tpc EXCEPT ![t] = IF running THEN "read" ELSE "release"]
    /\ skipped' = [skipped EXCEPT ![t] = FALSE]
    /\ UNCHANGED << engineVars, storeVars, startVars,
                    counter, cap, frame_times, tfps, nframes, loc, readVars, histVars >>

\* the mutant of T_ReadFail that ends the session at the end of the input
T_ReadFailStops(t) ==
    /\ tpc[t] = "read"
    /\ running' = FALSE
    /\ tpc' = [tpc EXCEPT ![t] = "release"]
    /\ skipped' = [skipped EXCEPT ![t] = TRUE]
    /\ UNCHANGED << engineVars, fps, active_tracks, density, zone_counts, latest_frame,
                    history, lock, video_path, pipeline_thread, startVars,
                    counter, cap, frame_times, tfps, nframes, loc, readVars, histVars >>

\* lines 79-82: no frame; the source is rewound and the loop continues
T_ReadFail(t) ==
    /\ tpc[t] = "read"
    /\ tpc' = [tpc EXCEPT ![t] = "loop"]
    /\ skipped' = [skipped EXCEPT ![t] = TRUE]
    /\ UNCHANGED << engineVars, storeVars, startVars,
                    counter, cap, frame_times, tfps, nframes, loc, readVars, histVars >>

\* lines 79, 84-97: a frame; the tracker reports tracks, the engine is
\* updated, density and zone_counts are computed, the frame is encoded
T_ReadFrame(t, tracks, limit) ==
    /\ tpc[t] = "read"
    /\ nframes[t] < limit
    /\ WithinCount(Update(counter[t], tracks))
    /\ LET updated == Update(counter[t], tracks)
       IN  /\ counter' = [counter EXCEPT ![t] = AfterGetAllCounts(updated)]
           /\ loc' = [loc EXCEPT ![t] =
                        [jpeg        |-> << t, nframes[t] + 1 >>,
                         tracks_len  |-> Len(tracks),
                         density     |-> GetDensity(Len(tracks)),
                         zone_counts |-> GetAllCounts(updated)]]
    /\ nframes' = [nframes EXCEPT ![t] = @ + 1]
    /\ tpc' = [tpc EXCEPT ![t] = "acquire"]
    /\ UNCHANGED << engineVars, storeVars, startVars,
                    cap, frame_times, tfps, readVars, ghostVars >>

\* line 99: with state.lock
T_Acquire(t) ==
    /\ tpc[t] = "acquire"
    /\ lock = NoThread
    /\ lock' = t
    /\ tpc' = [tpc EXCEPT ![t] = "pub_latest"]
    /\ UNCHANGED << engineVars, running, fps, active_tracks, density, zone_counts,
                    latest_frame, history, video_path, pipeline_thread, startVars,
                    counter, cap, frame_times, tfps, nframes, loc, readVars, ghostVars >>

\* the snapshot thread t is publishing
Snapshot(t) ==
    [latest_frame  |-> loc[t].jpeg,
     fps           |-> Round1(tfps[t]),
     active_tracks |-> loc[t].tracks_len,
     density       |-> loc[t].density,
     zone_counts   |-> loc[t].zone_counts]

\* the mutant of T_PublishLatest that leaves state.density as it was
T_PublishLatestKeepsDensity(t) ==
    /\ tpc[t] = "pub_latest"
    /\ latest_frame' = loc[t].jpeg
    /\ fps' = Round1(tfps[t])
    /\ active_tracks' = loc[t].tracks_len
    /\ lastPub' = << Snapshot(t) >>
    /\ cleared' = FALSE
    /\ tpc' = [tpc EXCEPT ![t] = "pub_counts"]
    /\ UNCHANGED << engineVars, running, density, zone_counts, history, lock,
                    video_path, pipeline_thread, startVars, counter, cap,
                    frame_times, tfps, nframes, loc, readVars, appended, resetBy,
                    accepted, stopCalled, afterStop, stopLast, pubsAfterStop,
                    skipped >>

\* lines 100-103, the lock held
T_PublishLatest(t) ==
    /\ tpc[t] = "pub_latest"
    /\ latest_frame' = loc[t].jpeg
    /\ fps' = Round1(tfps[t])
    /\ active_tracks' = loc[t].tracks_len
    /\ density' = loc[t].density
    /\ lastPub' = << Snapshot(t) >>
    /\ cleared' = FALSE
    /\ tpc' = [tpc EXCEPT ![t] = "pub_counts"]
    /\ UNCHANGED << engineVars, running, zone_counts, history, lock, video_path,
                    pipeline_thread, startVars, counter, cap, frame_times, tfps,
                    nframes, loc, readVars, appended, resetBy, accepted,
                    stopCalled, afterStop, stopLast, pubsAfterStop, skipped >>

\* lines 104-109, the lock held and then released
T_PublishCounts(t) ==
    /\ tpc[t] = "pub_counts"
    /\ zone_counts' = loc[t].zone_counts
    /\ LET entry == HistoryEntry(GetTotal(counter[t]), loc[t].zone_counts)
       IN  /\ history' = DequeAppend(history, entry)
           /\ appended' = Append(appended, << entry, t >>)
    /\ pubsAfterStop' = IF stopLast THEN [pubsAfterStop EXCEPT ![t] = @ + 1]
                        ELSE pubsAfterStop
    /\ lock' = NoThread
    /\ tpc' = [tpc EXCEPT ![t] = "times"]
    /\ UNCHANGED << engineVars, running, fps, active_tracks, density, latest_frame,
                    video_path, pipeline_thread, startVars, counter, cap, frame_times,
                    tfps, nframes, loc, readVars, lastPub, cleared, resetBy, accepted,
                    stopCalled, afterStop, stopLast, skipped >>

RECURSIVE SumSeq(_)
SumSeq(q) == IF q = << >> THEN 0 ELSE Head(q) + SumSeq(Tail(q))

\* the mutant of T_FrameTimes that goes on to the next frame without the
\* test of state.running
T_FrameTimesSkipsCheck(t, d) ==
    /\ tpc[t] = "times"
    /\ LET appendedTimes == Append(frame_times[t], d)
           window == IF Len(appendedTimes) > FrameWindow THEN Tail(appendedTimes)
                     ELSE appendedTimes
       IN  /\ frame_times' = [frame_times EXCEPT ![t] = window]
           /\ tfps' = [tfps EXCEPT ![t] = << 10 * Len(window), SumSeq(window) >>]
    /\ tpc' = [tpc EXCEPT ![t] = "read"]
    /\ UNCHANGED << engineVars, storeVars, startVars,
                    counter, cap, nframes, loc, readVars, ghostVars >>

\* the mutant of T_FrameTimes that never drops a duration
T_FrameTimesNoPop(t, d) ==
    /\ tpc[t] = "times"
    /\ LET window == Append(frame_times[t], d)
       IN  /\ frame_times' = [frame_times EXCEPT ![t] = window]
           /\ tfps' = [tfps EXCEPT ![t] = << 10 * Len(window), SumSeq(window) >>]
    /\ tpc' = [tpc EXCEPT ![t] = "loop"]
    /\ UNCHANGED << engineVars, storeVars, startVars,
                    counter, cap, nframes, loc, readVars, ghostVars >>

\* lines 111-114: the frame took d tenths of a second
T_FrameTimes(t, d) ==
    /\ tpc[t] = "times"
    /\ LET appendedTimes == Append(frame_times[t], d)
           window == IF Len(appendedTimes) > FrameWindow THEN Tail(appendedTimes)
                     ELSE appendedTimes
       IN  /\ frame_times' = [frame_times EXCEPT ![t] = window]
           /\ tfps' = [tfps EXCEPT ![t] = << 10 * Len(window), SumSeq(window) >>]
    /\ tpc' = [tpc EXCEPT ![t] = "loop"]
    /\ UNCHANGED << engineVars, storeVars, startVars,
                    counter, cap, nframes, loc, readVars, ghostVars >>

\* lines 116-117
T_Release(t) ==
    /\ tpc[t] = "release"
    /\ cap' = [cap EXCEPT ![t] = "released"]
    /\ tpc' = [tpc EXCEPT ![t] = "done"]
    /\ UNCHANGED << engineVars, storeVars, startVars,
                    counter, frame_times, tfps, nframes, loc, readVars, ghostVars >>


(***************************************************************************)
(* Specifications.                                                         *)
(***************************************************************************)
\* start requests h of the given calls, for the given file names
StartNext(calls, names) ==
    \E h \in calls :
        \/ \E f \in names : StartCheck(h, f)
        \/ StartSetRunning(h)
        \/ StartSetPath(h)
        \/ StartReset(h)
        \/ StartSpawn(h)

\* the steps of the pipeline threads: the tracker reports one of trackLists,
\* a frame takes one of durations, a thread processes at most limit frames
ThreadNext(calls, trackLists, durations, limit) ==
    \E t \in calls :
        \/ T_Load(t)
        \/ T_Open(t)
        \/ T_LoopCheck(t)
        \/ T_ReadFail(t)
        \/ \E tracks \in trackLists : T_ReadFrame(t, tracks, limit)
        \/ T_Acquire(t)
        \/ T_PublishLatest(t)
        \/ T_PublishCounts(t)
        \/ \E d \in durations : T_FrameTimes(t, d)
        \/ T_Release(t)

\* The service under racing requests for a video that has zones and opens:
\* the tracker reports no track or one track in the north zone, and every
\* frame takes a tenth of a second.
PipeTrackLists == TrackListsOver({ <<0, 0, 2, 2>> }, { 1 }, 1)
PipeDurations == { 1 }
PipeNames == { <<"a", "mp4">> }

Next ==
    \/ StartNext(Calls, PipeNames)
    \/ Stop
    \/ Stats
    \/ ThreadNext(Calls, PipeTrackLists, PipeDurations, MaxFrames)

Spec == Init /\ [][Next]_vars

\* One long session: a single start request and HistFrames frames, with
\* no reader.
NextHist ==
    \/ StartNext({ 1 }, PipeNames)
    \/ Stop
    \/ ThreadNext({ 1 }, PipeTrackLists, PipeDurations, HistFrames)

SpecHist == Init /\ [][NextHist]_vars

\* Start requests for every kind of file name: listed or not, with zones,
\* without, with malformed zones, with a video that does not open.
NextErr ==
    \/ StartNext(Calls, RequestNames)
    \/ Stop
    \/ ThreadNext(Calls, PipeTrackLists, PipeDurations, MaxFrames)

SpecErr == Init /\ [][NextErr]_vars

\* Racing start and stop requests with threads that go on for several
\* frames, and no reader.
NextStop ==
    \/ StartNext(Calls, PipeNames)
    \/ Stop
    \/ ThreadNext(Calls, PipeTrackLists, PipeDurations, StopFrames)

SpecStop == Init /\ [][NextStop]_vars

\* One session under a fair scheduler: a pipeline thread that can take a
\* step eventually takes one.
ThreadLive == ThreadNext({ 1 }, PipeTrackLists, PipeDurations, LiveFrames)

NextLive ==
    \/ StartNext({ 1 }, PipeNames)
    \/ Stop
    \/ ThreadLive

SpecLive == Init /\ [][NextLive]_vars /\ WF_vars(ThreadLive)

\* The engine alone, on every frame the model's tracker can report.
ZoneIdArgs == ZoneIdsOf(ZonesA) \cup { 7 }

NextEngine ==
    \/ \E tracks \in EngineTrackLists : ZCUpdate(tracks)
    \/ \E z \in ZoneIdArgs : ZCGetCount(z)
    \/ ZCGetAllCounts

SpecEngine == Init /\ [][NextEngine]_vars

\* A frame in which the tracker reports n tracks, none of them in a zone.
Crowd(n) == [i \in 1..n |-> MkTrack(<< 6, 6, 8, 8 >>, i)]

\* The service under racing requests when traffic is light, moderate or
\* heavy: the tracker reports no track, DENSITY_LOW + 1 tracks or
\* DENSITY_HIGH + 1 tracks.
CrowdTrackLists == { Crowd(0), Crowd(DENSITY_LOW + 1), Crowd(DENSITY_HIGH + 1) }

NextStats ==
    \/ StartNext(Calls, PipeNames)
    \/ Stop
    \/ Stats
    \/ ThreadNext(Calls, CrowdTrackLists, PipeDurations, MaxFrames)

SpecStats == Init /\ [][NextStats]_vars

\* The classifier alone: a frame with n tracks, as far as density goes:
\* density = counter.get_density(len(tracks)) and the two fields the publish
\* writes from it (lines 90, 102-103).
Classify(n) ==
    /\ active_tracks' = n
    /\ density' = GetDensity(n)
    /\ UNCHANGED << engineVars, running, fps, zone_counts, latest_frame, history,
                    lock, video_path, pipeline_thread, startVars, threadVars,
                    readVars, ghostVars >>

NextDensity == \E n \in 0..MaxActive : Classify(n)

SpecDensity == Init /\ [][NextDensity]_vars

(***************************************************************************)
(* Claims about the engine, checked under SpecEngine.                      *)
(***************************************************************************)
CountOf(e, zone_id) == GetOr(e.counts, zone_id, 0)

StoredState(e, track_id, zone_id) == GetOr(e.track_state, << track_id, zone_id >>, "outside")

ZoneIndex(e) == 1..Len(e.zones)

\* the tracks of the list that are inside the zone and stored as Outside
Entering(e, tracks, zone) ==
    { i \in 1..Len(tracks) :
        /\ PointInZone(GetCenter(tracks[i]), zone.polygon)
        /\ StoredState(e, tracks[i][5], zone.id) = "outside" }

\* C1: in every reachable state, one update call raises a zone's count by
\* one for each track of the list whose centroid is inside the zone while
\* its stored state is Outside (or absent), and by nothing for any other
\* track; get_count and get_all_counts change no count.
C1_CountsEntriesOnly ==
    /\ [](\A tracks \in EngineTrackLists :
            LET after == Update(zc, tracks)
            IN  \A i \in ZoneIndex(zc) :
                    CountOf(after, zc.zones[i].id)
                      = CountOf(zc, zc.zones[i].id)
                          + Cardinality(Entering(zc, tracks, zc.zones[i])))
    /\ [][ ((\E z \in ZoneIdArgs : ZCGetCount(z)) \/ ZCGetAllCounts) =>
              \A z \in ZoneIdArgs : CountOf(zc', z) = CountOf(zc, z) ]_vars

\* an entry has been counted for track 1 while track 2 was seen outside
C1_Witness ==
    /\ CountOf(zc, 0) = 1
    /\ StoredState(zc, 1, 0) = "inside"
    /\ << 2, 0 >> \in DOMAIN zc.track_state
    /\ zc.track_state[<< 2, 0 >>] = "outside"

\* C2: from every reachable state, update(tracks) followed by a second
\* update with the same track list adds nothing to any zone's count in the
\* second call.
C2_SecondUpdateAddsNothing ==
    \A tracks \in EngineTrackLists :
        LET once  == Update(zc, tracks)
            twice == Update(once, tracks)
        IN  \A i \in ZoneIndex(zc) :
                CountOf(twice, zc.zones[i].id) = CountOf(once, zc.zones[i].id)

\* a list of two tracks has been counted in both zones, and the same list
\* again leaves the engine as it is
C2_Witness ==
    /\ CountOf(zc, 0) >= 1
    /\ CountOf(zc, 1) >= 1
    /\ \E tracks \in EngineTrackLists :
          /\ Len(tracks) = 2
          /\ \A i \in 1..2 : \E j \in ZoneIndex(zc) :
                 /\ PointInZone(GetCenter(tracks[i]), zc.zones[j].polygon)
                 /\ StoredState(zc, tracks[i][5], zc.zones[j].id) = "inside"
          /\ Update(zc, tracks) = zc

RECURSIVE SumIntervals(_, _, _)
SumIntervals(tr, ids, zone_id) ==
    IF ids = {} THEN 0
    ELSE LET t == CHOOSE x \in ids : TRUE
         IN  Intervals(tr[<< t, zone_id >>]) + SumIntervals(tr, ids \ {t}, zone_id)

\* C3: a zone's count is the number of contiguous Inside intervals its
\* tracks have begun: inside, outside, inside again counts twice.
C3_CountsEachInterval ==
    \A i \in ZoneIndex(zc) :
        CountOf(zc, zc.zones[i].id) = SumIntervals(traj, TrackIds, zc.zones[i].id)

\* track 1 was inside north, then outside, then inside again
C3_Witness ==
    /\ Len(traj[<< 1, 0 >>]) >= 3
    /\ \E k \in 1..(Len(traj[<< 1, 0 >>]) - 2) :
          /\ traj[<< 1, 0 >>][k]
          /\ ~ traj[<< 1, 0 >>][k + 1]
          /\ traj[<< 1, 0 >>][k + 2]
    /\ CountOf(zc, 0) = 2


\* C11: across every update and query call on one ZoneCounter, no value of
\* get_all_counts() goes down.
C11_AllCountsNeverDecrease ==
    [][ \A label \in DOMAIN GetAllCounts(zc) :
            /\ label \in DOMAIN GetAllCounts(zc')
            /\ GetAllCounts(zc')[label] >= GetAllCounts(zc)[label] ]_vars

\* track 1 entered north and left it again, and north still counts 1
C11_Witness ==
    /\ traj[<< 1, 0 >>] = << TRUE, FALSE >>
    /\ StoredState(zc, 1, 0) = "outside"
    /\ GetAllCounts(zc)["north"] = 1

\* C12: get_total() is the sum of the values of get_all_counts(); a track
\* inside two zones adds to both, and so twice to the total.
C12_TotalIsSumOfAllCounts ==
    GetTotal(zc) = SumValues(GetAllCounts(zc))

\* the only track seen so far is inside both zones: each counts 1, total 2
C12_Witness ==
    /\ traj[<< 2, 0 >>] = << >>
    /\ StoredState(zc, 1, 0) = "inside"
    /\ StoredState(zc, 1, 1) = "inside"
    /\ GetAllCounts(zc)["north"] = 1
    /\ GetAllCounts(zc)["south"] = 1
    /\ GetTotal(zc) = 2

\* the labels of the registered zones
ZoneLabels(e) == { e.zones[i].label : i \in ZoneIndex(e) }

\* C18: get_all_counts() has exactly one entry per registered zone label,
\* zero counts included, whatever calls came before.
C18_OneEntryPerZone ==
    /\ DOMAIN GetAllCounts(zc) = ZoneLabels(zc)
    /\ Cardinality(DOMAIN GetAllCounts(zc)) = Len(zc.zones)

\* south has counted a track while north has no entry in self.counts yet,
\* and get_all_counts() still reports north, as zero
C18_Witness ==
    /\ 0 \notin DOMAIN zc.counts
    /\ CountOf(zc, 1) = 1
    /\ "north" \in DOMAIN GetAllCounts(zc)
    /\ GetAllCounts(zc)["north"] = 0
    /\ GetAllCounts(zc)["south"] = 1

\* C17: the density of n tracks is LOW exactly when n <= DENSITY_LOW, HIGH
\* exactly when n > DENSITY_HIGH and MEDIUM in between; with the thresholds
\* 5 and 15: 5 is LOW, 6 and 15 are MEDIUM, 16 is HIGH.
C17_DensityThresholds ==
    /\ density \in { "LOW", "MEDIUM", "HIGH" }
    /\ (density = "LOW") <=> (active_tracks <= DENSITY_LOW)
    /\ (density = "HIGH") <=> (active_tracks > DENSITY_HIGH)
    /\ (active_tracks = 5) => (density = "LOW")
    /\ (active_tracks \in { 6, 15 }) => (density = "MEDIUM")
    /\ (active_tracks = 16) => (density = "HIGH")

\* a frame of 16 tracks has been classified
C17_Witness ==
    /\ active_tracks = 16
    /\ density = "HIGH"

(***************************************************************************)
(* Claims about the service, checked under Spec (C9 under SpecHist).       *)
(***************************************************************************)
\* a stats request can take the lock and answer now
CanRead == ENABLED Stats

\* thread t is inside the while loop of run_pipeline
InLoop(t) == tpc[t] \in { "loop", "read", "acquire", "pub_latest", "pub_counts", "times" }

\* the threads that have published since the last clear of history
Publishers == { appended[i][2] : i \in 1..Len(appended) }

\* C4: at most one pipeline thread is inside the run_pipeline loop at any
\* time, whatever the interleaving of start and stop requests.
C4_AtMostOneProducer == Cardinality({ t \in Calls : InLoop(t) }) <= 1

\* C5: after a stop and an accepted start whose reset has run, every stats
\* read made before the new session's thread has published returns an
\* empty History and no zone count other than zero.
C5_ResetHoldsUntilFirstPublish ==
    \A h \in Calls :
        ( /\ afterStop[h]
          /\ resetBy = h
          /\ h \notin Publishers
          /\ CanRead )
        => /\ StatsResponse.history = << >>
           /\ \A label \in DOMAIN StatsResponse.zone_counts :
                  StatsResponse.zone_counts[label] = 0

\* C6: once a publish has happened, every read returns latest_frame, fps,
\* active_tracks, density and zone_counts as one publish call wrote them,
\* never fields of a publish paired with those of a start-time reset.
C6_AllFieldsOfOnePublish ==
    (CanRead /\ lastPub # << >>) =>
        /\ latest_frame = lastPub[1].latest_frame
        /\ StatsResponse.fps = lastPub[1].fps
        /\ StatsResponse.active_tracks = lastPub[1].active_tracks
        /\ StatsResponse.density = lastPub[1].density
        /\ StatsResponse.zone_counts = lastPub[1].zone_counts

\* what the lock does give: a read never pairs fields of two different
\* publishes; latest_frame, fps, active_tracks and density are those of the
\* latest publish (or initial), and zone_counts is that publish's too
\* unless the reset of start (lines 150-152) has emptied it since
NoTearingBetweenPublishes ==
    CanRead =>
        IF lastPub = << >>
          THEN /\ latest_frame = << >>
               /\ StatsResponse.fps = 0
               /\ StatsResponse.active_tracks = 0
               /\ StatsResponse.density = "LOW"
               /\ StatsResponse.zone_counts = EmptyDict
          ELSE /\ latest_frame = lastPub[1].latest_frame
               /\ StatsResponse.fps = lastPub[1].fps
               /\ StatsResponse.active_tracks = lastPub[1].active_tracks
               /\ StatsResponse.density = lastPub[1].density
               /\ StatsResponse.zone_counts
                    = IF cleared THEN EmptyDict ELSE lastPub[1].zone_counts

\* what start request h finds left over: anything in History or zone_counts
\* before its reset has run, and afterwards any entry another thread wrote
Leftover(h) ==
    IF resetBy # h
      THEN StatsResponse.history # << >> \/ StatsResponse.zone_counts # EmptyDict
      ELSE Publishers \ { h } # { }

\* C7: no stats read returns running = true together with History entries
\* or zone counts left over from the session before the latest accepted
\* start.
C7_RunningOnlyAfterClear ==
    \A h \in Calls :
        ( /\ accepted = h
          /\ afterStop[h]
          /\ CanRead
          /\ StatsResponse.running )
        => ~ Leftover(h)

\* C8: whenever the running flag says Stopped, no pipeline thread holds an
\* open, unreleased capture.
C8_ReleasedBeforeStopped ==
    (~ StatsResponse.running) => \A t \in Calls : cap[t] # "open"

LastN(q, n) == IF Len(q) <= n THEN q ELSE SubSeq(q, Len(q) - n + 1, Len(q))

\* C9: History never holds more than 60 entries, and it holds the last 60
\* (or fewer) entries published since it was cleared, in publish order.
C9_HistoryIsLast60 ==
    /\ Len(history) <= HistoryMax
    /\ history = LastN([i \in 1..Len(appended) |-> appended[i][1]], HistoryMax)

\* 61 publishes: History holds 60 entries and its oldest is publish #2,
\* which differs from publish #1
C9_Witness ==
    /\ Len(appended) = HistoryMax + 1
    /\ Len(history) = HistoryMax
    /\ appended[1][1] # appended[2][1]
    /\ history[1] = appended[2][1]

\* C10: with no start accepted in between, the zone counts of a stats read
\* are non-negative and not below those of the stats read before it.
C10_ReadsNeverDecrease ==
    (resp # << >> /\ respEpoch = accepted /\ CanRead) =>
        \A label \in (DOMAIN resp[1].zone_counts) \cap (DOMAIN StatsResponse.zone_counts) :
            /\ resp[1].zone_counts[label] >= 0
            /\ StatsResponse.zone_counts[label] >= resp[1].zone_counts[label]

(***************************************************************************)
(* Claims about the control surface and its failures, under SpecErr.       *)
(***************************************************************************)
\* the request names a listed video whose zones file exists
Startable(f) == f \in Videos /\ ZonesFileExists(zones_path(f))

C14_NoZonesStartFails ==
    /\ [](\A h \in Calls :
            (sfile[h] # << >> /\ ~ ZonesFileExists(zones_path(sfile[h]))) =>
                /\ spc[h] = "done"
                /\ tpc[h] = "none"
                /\ pipeline_thread # h
                /\ sresp[h] = IF sfile[h] \in Videos THEN "400 No zones for this video"
                              ELSE "404 Video not found")
    /\ [][ \A h \in Calls : \A f \in RequestNames :
              (~ ZonesFileExists(zones_path(f)) /\ StartCheck(h, f)) =>
                  /\ storeVars' = storeVars
                  /\ tpc' = tpc ]_vars

\* a request for b.mp4, listed but without zones, was refused while Stopped
C14_Witness ==
    /\ sfile[1] = << "b", "mp4" >>
    /\ sresp[1] = "400 No zones for this video"
    /\ ~ running
    /\ tpc[1] = "none"
    /\ pipeline_thread = NoThread

\* the request names a startable video that cannot be opened
Unopenable(f) == Startable(f) /\ ~ VideoOpens(VideoPath(f))

\* C15: while every start request made so far names a video that cannot be
\* opened, no start reports success and running is never true.
C15_OpenFailureAbortsStart ==
    (\A h \in Calls : sfile[h] = << >> \/ Unopenable(sfile[h])) =>
        /\ ~ StatsResponse.running
        /\ \A h \in Calls : sresp[h] # "started"

\* C16: once the thread of the latest accepted start has failed to load
\* malformed zones, running is false and that thread has published nothing.
C16_MalformedZonesEndStopped ==
    \A t \in Calls :
        (accepted = t /\ tpc[t] = "crashed") =>
            /\ ~ StatsResponse.running
            /\ t \notin Publishers

(***************************************************************************)
(* Claims about stopping, under SpecStop and SpecLive.                     *)
(***************************************************************************)
\* C19: after a stop request that no start follows, a pipeline thread
\* publishes at most one more snapshot.
C19_AtMostOnePublishAfterStop ==
    \A t \in Calls : stopLast => pubsAfterStop[t] <= 1

\* two threads were in their loops when the stop came (both starts had
\* been accepted); each published the snapshot it had in flight and ended
C19_Witness ==
    /\ stopLast
    /\ pubsAfterStop[1] = 1
    /\ pubsAfterStop[2] = 1
    /\ tpc[1] = "done"
    /\ tpc[2] = "done"

\* C20: under fair scheduling, after a stop request that no start follows,
\* every pipeline thread that was started eventually leaves its loop,
\* releases the capture and ends.
C20_StopTerminates ==
    \A t \in Calls :
        (stopLast /\ tpc[t] # "none") ~> (tpc[t] = "done" /\ cap[t] = "released")

\* the thread has ended after the stop, its capture released, having met
\* an unreadable frame or not
C20_Witness ==
    /\ stopLast
    /\ ~ running
    /\ tpc[1] = "done"
    /\ cap[1] = "released"
    /\ nframes[1] = 1

(***************************************************************************)
(* Claims about the pipeline loop and what it publishes.                   *)
(***************************************************************************)
\* C21: an iteration whose frame read fails publishes nothing, leaves the
\* thread's engine, its capture and every field of the shared state
\* (running included) as they were, and returns to the top of the loop
\* with the capture still open.
C21_FrameGapChangesNothing ==
    /\ [][ \A t \in Calls :
              T_ReadFail(t) =>
                  /\ storeVars' = storeVars
                  /\ counter' = counter
                  /\ cap' = cap
                  /\ appended' = appended
                  /\ tpc'[t] = "loop" ]_vars
    /\ [](\A t \in Calls : skipped[t] => (tpc[t] = "loop" /\ cap[t] = "open"))

\* after a published frame the next read failed: the thread is back at the
\* top of its loop, still Running, the snapshot still in place
C21_Witness ==
    /\ skipped[1]
    /\ running
    /\ tpc[1] = "loop"
    /\ cap[1] = "open"
    /\ Len(history) = 1
    /\ lastPub # << >>

(***************************************************************************)
(* Further claims about ZoneCounter.                                       *)
(***************************************************************************)
\* the ids of a track list
IdsOf(tracks) == { tracks[i][5] : i \in 1..Len(tracks) }

\* the stored states of the tracks whose id is in ids
StatesOf(e, ids) ==
    [k \in { x \in DOMAIN e.track_state : x[1] \in ids } |-> e.track_state[k]]

\* C22: update leaves the stored state of every (track, zone) pair whose
\* track id is not in the list as it was; update with an empty list
\* changes no state and no count; so a track stored as Inside that is
\* missing from a frame and then listed again inside the zone is not
\* counted again.
C22_StatePersistsAcrossGaps ==
    /\ \A tracks \in EngineTrackLists :
          StatesOf(Update(zc, tracks), TrackIds \ IdsOf(tracks))
            = StatesOf(zc, TrackIds \ IdsOf(tracks))
    /\ Update(zc, << >>) = zc
    /\ \A id \in TrackIds : \A i \in ZoneIndex(zc) :
          StoredState(zc, id, zc.zones[i].id) = "inside" =>
              \A gap \in { g \in EngineTrackLists : id \notin IdsOf(g) } :
              \A box \in { b \in Boxes :
                             PointInZone(GetCenter(MkTrack(b, id)), zc.zones[i].polygon) } :
                  LET missing == Update(zc, gap)
                      back    == Update(missing, << MkTrack(box, id) >>)
                  IN  /\ StoredState(missing, id, zc.zones[i].id) = "inside"
                      /\ CountOf(back, zc.zones[i].id) = CountOf(missing, zc.zones[i].id)

\* track 1 is stored Inside north, both tracks have been counted there and
\* track 2 has moved since; a frame without track 1 followed by a frame
\* with it inside north leaves the count at 2
C22_Witness ==
    /\ traj[<< 1, 0 >>] = << TRUE >>
    /\ StoredState(zc, 1, 0) = "inside"
    /\ Len(traj[<< 2, 0 >>]) >= 2
    /\ CountOf(zc, 0) = 2
    /\ \E box \in Boxes :
          /\ PointInZone(GetCenter(MkTrack(box, 1)), zc.zones[1].polygon)
          /\ CountOf(Update(Update(zc, << >>), << MkTrack(box, 1) >>), 0) = 2

(***************************************************************************)
(* Claims about the bookkeeping of the pipeline loop.                      *)
(***************************************************************************)
\* C23: the first snapshot a pipeline thread publishes carries fps = 0;
\* the window of frame durations never holds more than 30 entries, and
\* appending to a full window drops its oldest entry.
C23_FpsBookkeeping ==
    /\ [][ \A t \in Calls :
              (T_PublishLatest(t) /\ nframes[t] = 1) =>
                  (fps' = 0 /\ lastPub'[1].fps = 0) ]_vars
    /\ [](\A t \in Calls : Len(frame_times[t]) <= FrameWindow)
    /\ [][ \A t \in Calls : \A d \in PipeDurations :
              (T_FrameTimes(t, d) /\ Len(frame_times[t]) = FrameWindow) =>
                  frame_times'[t] = Append(Tail(frame_times[t]), d) ]_vars

\* the 31st duration has just been appended to a window that was full, and
\* the snapshots after the first carry a measured rate
C23_Witness ==
    /\ nframes[1] = FrameWindow + 1
    /\ tpc[1] = "loop"
    /\ Len(frame_times[1]) = FrameWindow
    /\ fps > 0

(***************************************************************************)
(* Claims about the stored states of ZoneCounter.                          *)
(***************************************************************************)
\* a track whose centroid (5, 5) lies on an edge of the south zone
EdgeTrack(id) == MkTrack(<< 4, 4, 6, 6 >>, id)

\* C24: after update(tracks) with pairwise-distinct track ids, the stored
\* state of every listed track and every zone is Inside exactly when the
\* track's centroid is inside the zone, a centroid on the boundary being
\* inside; and the stored state of a (track, zone) pair always equals the
\* membership observed when the track was last listed.
C24_StoredStateIsLastMembership ==
    /\ \A tracks \in EngineTrackLists :
          LET after == Update(zc, tracks)
          IN  \A n \in 1..Len(tracks) : \A i \in ZoneIndex(zc) :
                  /\ << tracks[n][5], zc.zones[i].id >> \in DOMAIN after.track_state
                  /\ (StoredState(after, tracks[n][5], zc.zones[i].id) = "inside")
                       <=> PointInZone(GetCenter(tracks[n]), zc.zones[i].polygon)
    /\ \A id \in TrackIds :
          LET after == Update(zc, << EdgeTrack(id) >>)
          IN  /\ StoredState(after, id, 1) = "inside"
              /\ StoredState(after, id, 0) = "outside"
    /\ \A k \in DOMAIN traj :
          traj[k] # << >> =>
              ((StoredState(zc, k[1], k[2]) = "inside") <=> traj[k][Len(traj[k])])

\* track 1 was inside south, left it and is stored Inside again, now with
\* its centroid on the zone's edge and outside north
C24_Witness ==
    /\ Len(traj[<< 1, 1 >>]) >= 3
    /\ StoredState(zc, 1, 1) = "inside"
    /\ << 1, 0 >> \in DOMAIN zc.track_state
    /\ StoredState(zc, 1, 0) = "outside"
    /\ Update(zc, << EdgeTrack(1) >>) = zc

\* the track ids whose stored state for the zone is Inside
InsideIds(e, zone_id) ==
    { k[1] : k \in { x \in DOMAIN e.track_state :
                        x[2] = zone_id /\ e.track_state[x] = "inside" } }

\* C25: in every reachable engine state and for every zone, the zone's
\* count is at least the number of distinct track ids whose stored state
\* for that zone is Inside.
C25_CountCoversInside ==
    \A i \in ZoneIndex(zc) :
        CountOf(zc, zc.zones[i].id) >= Cardinality(InsideIds(zc, zc.zones[i].id))

\* both tracks are stored Inside north with a count of 2, while south has
\* counted a track that has since left it
C25_Witness ==
    /\ InsideIds(zc, 0) = TrackIds
    /\ CountOf(zc, 0) = 2
    /\ InsideIds(zc, 1) = { }
    /\ CountOf(zc, 1) = 1

(***************************************************************************)
(* Claims about what a stats read returns.                                 *)
(***************************************************************************)
\* the per-zone counts of a history entry
EntryCounts(entry) == [k \in (DOMAIN entry) \ { "total" } |-> entry[k]]

\* the newest history entry agrees with zone_counts, and every entry's
\* total is the sum of its per-zone counts
HistoryAgrees(h, zcounts) ==
    /\ h # << >> =>
          /\ EntryCounts(h[Len(h)]) = zcounts
          /\ h[Len(h)]["total"] = SumValues(zcounts)
    /\ \A i \in 1..Len(h) : h[i]["total"] = SumValues(EntryCounts(h[i]))

\* C26: in every state a reader can observe under the lock, and in every
\* stats response, a non-empty History has a newest entry whose per-zone
\* counts equal zone_counts and whose total is their sum, and every
\* History entry's total is the sum of that entry's per-zone counts.
C26_HistoryAgreesWithCounts ==
    /\ CanRead => HistoryAgrees(history, zone_counts)
    /\ resp # << >> => HistoryAgrees(resp[1].history, resp[1].zone_counts)

\* a stats read has returned two entries, the older with no vehicle
\* counted and the newer with one in zone north
C26_Witness ==
    /\ CanRead
    /\ resp # << >>
    /\ resp[1].history = history
    /\ Len(history) = 2
    /\ history[1]["total"] = 0
    /\ history[2]["total"] = 1
    /\ zone_counts["north"] = 1

\* C27: in every stats read, from the initial state onward and across
\* start and stop, the reported density is get_density of the reported
\* active_tracks; so it is in every state a read can observe.
C27_DensityMatchesActiveTracks ==
    /\ resp # << >> => resp[1].density = GetDensity(resp[1].active_tracks)
    /\ CanRead => density = GetDensity(active_tracks)

\* a read after a restart's reset and before the next publish: no counts,
\* no history, and the heavy traffic of the last frame published
C27_Witness ==
    /\ cleared
    /\ resp # << >>
    /\ resp[1].zone_counts = EmptyDict
    /\ resp[1].history = << >>
    /\ resp[1].active_tracks = DENSITY_HIGH + 1
    /\ resp[1].density = "HIGH"

====
